---- MODULE Spec2Model ----
(***************************************************************************)
(* State-machine model of the translate-to-ja scripts:                     *)
(*   src/translate_to_ja.js   (prog = "js"):  chunk worker driven by       *)
(*                            runWithConcurrency                           *)
(*   src/translate_to_ja.mjs  (prog = "mjs"): TranslationService chain,    *)
(*                            withRetry and the batch loop of App.run      *)
(*   src/unnamed/part_000     (prog = "simple"): the translator that makes *)
(*                            one chat completion call for the whole text  *)
(*   withRetry alone          (prog = "retry"): one call of withRetry with *)
(*                            arbitrary maxRetries / initialDelay and an   *)
(*                            opaque operation fn                          *)
(* One step of the model is one turn of the Node.js event loop: an LLM    *)
(* call settling, a timer firing or a file write settling, together with   *)
(* every promise reaction (microtask) that follows from it.                *)
(***************************************************************************)
EXTENDS Integers, Sequences, FiniteSets, TLC

\* ------------------------------------------------------------ bounds
\* Largest number of chunks the splitter returns in a run.
MaxChunks == 4
\* Largest number of chunks whose LLM calls or file writes fail in a run.
MaxFaultyChunks == 1
\* Largest maxRetries argument tried on withRetry alone.
MaxRetriesArg == 3

\* ------------------------------------------------- program constants
\* translate_to_ja.js CONFIG.CONCURRENCY_LIMIT
JS_CONCURRENCY_LIMIT == 4
\* translate_to_ja.mjs CONFIG.CONCURRENCY_LIMIT
MJS_CONCURRENCY_LIMIT == 3
\* translate_to_ja.mjs CONFIG.MAX_RETRIES
MAX_RETRIES == 3
\* default of withRetry's delay parameter
DEFAULT_DELAY == 1000

\* ------------------------------------------------------------- texts
\* A string is the sequence of its characters.  The four characters of the
\* Japanese marker are written mon, dai, na, shi.
Range(s) == {s[k] : k \in 1..Len(s)}

UpperLetters == <<"A","B","C","D","E","F","G","H","I","J","K","L","M",
                  "N","O","P","Q","R","S","T","U","V","W","X","Y","Z">>
LowerLetters == <<"a","b","c","d","e","f","g","h","i","j","k","l","m",
                  "n","o","p","q","r","s","t","u","v","w","x","y","z">>

\* String.prototype.toLowerCase on one character
lowerChar(c) ==
  IF \E k \in 1..Len(UpperLetters) : UpperLetters[k] = c
  THEN LowerLetters[CHOOSE k \in 1..Len(UpperLetters) : UpperLetters[k] = c]
  ELSE c

\* String.prototype.toLowerCase
toLowerCase(s) == [k \in 1..Len(s) |-> lowerChar(s[k])]

\* String.prototype.includes
includes(s, t) ==
  \E k \in 0..(Len(s) - Len(t)) : SubSeq(s, k + 1, k + Len(t)) = t

STR_no_issues == <<"n","o"," ","i","s","s","u","e","s">>
STR_No_issues == <<"N","o"," ","i","s","s","u","e","s">>
STR_mondai_nashi == <<"mon","dai","na","shi">>
STR_No_changes_needed ==
  <<"N","o"," ","c","h","a","n","g","e","s"," ","n","e","e","d","e","d",".">>

\* The texts the Critique stage may answer with: "No issues", "NO ISSUES
\* found", a Japanese sentence holding the marker, and a text with a finding
\* ("No issue but API") that holds no marker.
STR_NO_ISSUES_found == <<"N","O"," ","I","S","S","U","E","S"," ","f","o","u","n","d">>
STR_tokuni_mondai_nashi == <<"toku","ni","mon","dai","na","shi","maru">>
STR_No_issue_but_API == <<"N","o"," ","i","s","s","u","e"," ","b","u","t"," ","A","P","I">>

CritiqueTexts ==
  {STR_No_issues, STR_NO_ISSUES_found, STR_tokuni_mondai_nashi, STR_No_issue_but_API}

\* What the LLM answers in a run: [critique, echo], the text it gives to every
\* Critique prompt and whether it gives the draft back unchanged to a Refine
\* prompt.  A run of one chunk is tried with every answer; a run of several
\* chunks with one approving and one disapproving critique.
LlmAnswers(n) ==
  IF n = 1
  THEN [critique : CritiqueTexts, echo : BOOLEAN]
  ELSE [critique : {STR_No_issues, STR_No_issue_but_API}, echo : {FALSE}]

\* Texts other than critiques are named by what they are and by their chunk.
NoText == [k |-> "none", i |-> -1]
\* results.push(null)
NullSlot == [k |-> "null", i |-> -1]
ChunkText(i) == [k |-> "chunk", i |-> i]
DraftOf(i) == [k |-> "draft", i |-> i]
RefinedOf(i) == [k |-> "refined", i |-> i]
ErrorPlaceholder == [k |-> "[Error]", i |-> -1]
\* an empty slot of new Array(n); Array.prototype.join prints it as ""
EmptySlot == [k |-> "", i |-> -1]
Separator == [k |-> "\n\n", i |-> -1]

\* Array.prototype.join("\n\n") of a 0-indexed array a of length n
RECURSIVE join(_, _)
join(a, n) ==
  IF n = 0 THEN <<>>
  ELSE IF n = 1 THEN <<a[0]>>
  ELSE join(a, n - 1) \o <<Separator, a[n - 1]>>

VARIABLES
  prog,         \* which script runs: "js", "mjs", "simple" or "retry"
  inputBlank,   \* the input text is empty after trim
  nChunks,      \* chunks.length / docs.length
  limit,        \* the concurrency limit
  critiqueResp, \* the text the LLM answers to a Critique prompt
  refineEcho,   \* the LLM answers a Refine prompt with the draft unchanged
  debugDir,     \* "unset", "set" (not yet made), "made", "mkdirFailed"
  retryArgs,    \* [maxRetries, initialDelay] of the withRetry call
  faulty,       \* the chunks that have met a failure so far
  main,         \* where the main flow stands
  chunk,        \* per chunk: the state of its worker
  results,      \* the results array
  index,        \* js: next task index of runWithConcurrency
  executing,    \* js: the executing array (task indexes of the promises)
  worker,       \* js: state of each enqueue chain
  race,         \* js: the promises each pending Promise.race was built from
  batchStart,   \* mjs: loop variable i of the batch loop
  dispatched,   \* chunk indexes in the order their workers were started
  stdout,       \* what console.log printed
  exitCode      \* "running", "zero", "nonzero"

vars == <<prog, inputBlank, nChunks, limit, critiqueResp, refineEcho, debugDir,
          retryArgs, faulty, main, chunk, results, index, executing, worker,
          race, batchStart, dispatched, stdout, exitCode>>


\* ------------------------------------------------- the approval check
\* faulty variant of jsApproves: the comparison is case-sensitive
jsApprovesCaseSensitive(critiqueText) ==
  \/ includes(critiqueText, STR_No_issues)
  \/ includes(critiqueText, STR_mondai_nashi)

\* translate_to_ja.js: critiqueText.toLowerCase().includes("no issues")
\*                     || critiqueText.includes(mondai-nashi)
jsApproves(critiqueText) ==
  \/ includes(toLowerCase(critiqueText), STR_no_issues)
  \/ includes(critiqueText, STR_mondai_nashi)

\* faulty variant of mjsApproves: the marker is cut short to "no issue" and
\* compared in lower case
mjsApprovesLoosely(critique) ==
  \/ includes(toLowerCase(critique), SubSeq(STR_no_issues, 1, 8))
  \/ includes(critique, STR_mondai_nashi)

\* translate_to_ja.mjs: input.critique.includes("No issues")
\*                      || input.critique.includes(mondai-nashi)
mjsApproves(critique) ==
  \/ includes(critique, STR_No_issues)
  \/ includes(critique, STR_mondai_nashi)

\* ----------------------------------------------------- chunk workers
\* phase: "idle" (not started), "draft" / "critique" / "refine" (that LLM
\* call is in flight), "backoff" (withRetry's timer runs), "writing" (mjs
\* debug file write in flight), "fulfilled" / "rejected" (js worker promise),
\* "settled" / "exhausted" / "writeFailed" (mjs: the then/catch chain of the
\* chunk has finished).
\* calls: the stage calls of the current attempt, with their arguments.
\* trace: withRetry's events for this chunk, in order.
IdleChunk ==
  [phase |-> "idle", draft |-> NoText, critique |-> <<>>, final |-> NoText,
   calls |-> <<>>, retries |-> 0, delay |-> 0, trace |-> <<>>]

StageCall(stage, original, draft, critique) ==
  [stage |-> stage, original |-> original, draft |-> draft, critique |-> critique]

Chunks == 0..(nChunks - 1)

Running == exitCode = "running"

\* a call or write of chunk i may fail
canFail(i) == i \in faulty \/ Cardinality(faulty) < MaxFaultyChunks

\* the text the LLM returns for a Refine prompt
RefineOutput(i) == IF refineEcho THEN DraftOf(i) ELSE RefinedOf(i)

\* ================================================ translate_to_ja.js
\* faulty variant of jsStartWorker: the worker begins with the Critique call
jsStartWorkerAtCritique(ck, i) ==
  [ck EXCEPT ![i].phase = "critique",
             ![i].calls = <<StageCall("critique", ChunkText(i), NoText, <<>>)>>]

\* asyncFn(tasks[i], i) runs up to its first await: draftChain.invoke
jsStartWorker(ck, i) ==
  [ck EXCEPT ![i].phase = "draft",
             ![i].calls = <<StageCall("draft", ChunkText(i), NoText, <<>>)>>]

\* faulty variant of enqueue: the tasks are taken from the end of the list
RECURSIVE enqueueFromEnd(_, _)
enqueueFromEnd(s, w) ==
  IF s.index = nChunks
  THEN [s EXCEPT !.worker[w] = "returned"]
  ELSE LET i == nChunks - 1 - s.index
           s1 == [s EXCEPT !.index = @ + 1,
                           !.chunk = jsStartWorker(@, i),
                           !.dispatched = Append(@, i),
                           !.executing = Append(@, i)]
       IN IF Len(s1.executing) >= limit
          THEN [s1 EXCEPT !.worker[w] = "racing",
                          !.race[w] = Range(s1.executing)]
          ELSE enqueueFromEnd(s1, w)

\* One enqueue chain w of runWithConcurrency, run until it suspends at
\* Promise.race or returns.  s holds index, executing, worker, race, chunk.
\* (s is bound to the value of sched, which is thus computed once.)
RECURSIVE enqueue(_, _)
enqueue(sched, w) ==
  CHOOSE r \in
    { IF s.index = nChunks
      THEN [s EXCEPT !.worker[w] = "returned"]
      ELSE LET i == s.index
               s1 == [s EXCEPT !.index = i + 1,
                               !.chunk = jsStartWorker(@, i),
                               !.dispatched = Append(@, i),
                               !.executing = Append(@, i)]
           IN IF Len(s1.executing) >= limit
              THEN [s1 EXCEPT !.worker[w] = "racing",
                              !.race[w] = Range(s1.executing)]
              ELSE enqueue(s1, w) : s \in {sched} } : TRUE

\* for (let j = 0; j < limit && j < tasks.length; j++) workers.push(enqueue())
RECURSIVE startWorkers(_, _)
startWorkers(s, j) ==
  IF j < limit /\ j < nChunks
  THEN startWorkers(enqueue(s, j), j + 1)
  ELSE s

\* The chains whose pending Promise.race contains promise i resume, each with
\* await enqueue().  (They resume in the order the races were built; the
\* chains are interchangeable, so they are taken by number.)
RECURSIVE resume(_, _)
resume(s, ws) ==
  IF ws = {} THEN s
  ELSE LET w == CHOOSE x \in ws : \A y \in ws : x <= y
       IN resume(enqueue(s, w), ws \ {w})

Racing(s, i) == {w \in DOMAIN s.worker : s.worker[w] = "racing" /\ i \in s.race[w]}

\* p.then(() => executing.splice(executing.indexOf(p), 1))
splice(exec, i) == SelectSeq(exec, LAMBDA x : x # i)

jsSched ==
  [index |-> index, executing |-> executing, worker |-> worker, race |-> race,
   chunk |-> chunk, dispatched |-> dispatched]

\* faulty variant of workersDone: limit chains are waited for, also when
\* fewer tasks than limit exist and fewer chains were created
workersDoneOfLimit(s) ==
  \A w \in DOMAIN s.worker : s.worker[w] = "returned"

\* every enqueue chain that was created has returned: Promise.all(workers)
\* resolves
workersDone(s) ==
  \A w \in DOMAIN s.worker : (w < limit /\ w < nChunks) => s.worker[w] = "returned"

\* The main flow after the promise reactions of one turn: runWithConcurrency
\* goes from await Promise.all(workers) to await Promise.all(executing) to
\* return results; then results.join and console.log, and the write of
\* full_output.txt, whose failure is caught as a Fatal Error (exit 1).
\* (s is bound to the value of sched, which is thus computed once.)
jsCommit(sched, res, fl) ==
  \E s \in {sched} :
    /\ index' = s.index
    /\ executing' = s.executing
    /\ worker' = s.worker
    /\ race' = s.race
    /\ chunk' = s.chunk
    /\ dispatched' = s.dispatched
    /\ results' = res
    /\ IF ~workersDone(s)
       THEN /\ main' = "awaitWorkers"
            /\ UNCHANGED <<stdout, exitCode>>
            /\ faulty' = fl
       ELSE IF s.executing # <<>>
       THEN /\ main' = "awaitExecuting"
            /\ UNCHANGED <<stdout, exitCode>>
            /\ faulty' = fl
       ELSE /\ stdout' = Append(stdout, join(res, nChunks))
            /\ faulty' = fl
            /\ \/ /\ main' = "done"
                  /\ exitCode' = "zero"
               \/ /\ debugDir = "made"
                  /\ main' = "exited"
                  /\ exitCode' = "nonzero"

\* faulty variant of jsStore: the result goes to the first free slot, as
\* results.push(res) would put it
jsStoreByArrival(res, i, v) ==
  LET k == CHOOSE x \in DOMAIN res :
              res[x] = EmptySlot /\ \A y \in DOMAIN res : y < x => res[y] # EmptySlot
  IN [res EXCEPT ![k] = v]

\* .then(res => { results[i] = res; })
jsStore(res, i, v) == [res EXCEPT ![i] = v]

\* The worker promise of task i fulfils with finalText:
\* .then(res => { results[i] = res; }), the splice, and the resumed chains.
jsFulfil(i, ck, finalText, fl) ==
  LET s0 == [jsSched EXCEPT !.chunk = [ck EXCEPT ![i].phase = "fulfilled"],
                            !.executing = splice(@, i)]
      ws == Racing(s0, i)
      s1 == resume([s0 EXCEPT !.race = [w \in DOMAIN @ |-> IF w \in ws THEN {} ELSE @[w]]], ws)
  IN jsCommit(s1, jsStore(results, i, finalText), fl)

\* The worker promise of task i rejects.  Nothing catches it inside
\* runWithConcurrency: a pending Promise.race or Promise.all holding it rejects,
\* the action's catch prints Fatal Error and calls process.exit(1); where no
\* pending await holds it, the promise made by p.then(splice) rejects unhandled
\* and Node ends the process with exit code 1.
jsReject(i, ck, fl) ==
  /\ chunk' = [ck EXCEPT ![i].phase = "rejected"]
  /\ worker' = [w \in DOMAIN worker |-> IF w \in Racing(jsSched, i) THEN "threw" ELSE worker[w]]
  /\ main' = "exited"
  /\ exitCode' = "nonzero"
  /\ faulty' = fl
  /\ UNCHANGED <<index, executing, race, results, dispatched, stdout>>

\* the end of the chunk worker: the debug files (fs.writeFileSync, which may
\* throw) and return finalText
jsFinish(i, ck) ==
  \/ jsFulfil(i, ck, ck[i].final, faulty)
  \/ /\ debugDir = "made"
     /\ canFail(i)
     /\ jsReject(i, ck, faulty \cup {i})

JsFixed == UNCHANGED <<prog, inputBlank, nChunks, limit, critiqueResp, refineEcho,
                       retryArgs, batchStart>>

\* .action(...): input handling, debug directory, split, and runWithConcurrency
\* up to its first await
JsAction ==
  /\ prog = "js" /\ main = "start" /\ Running
  /\ JsFixed
  /\ \/ /\ inputBlank
        /\ main' = "exited" /\ exitCode' = "nonzero"
        /\ UNCHANGED <<debugDir, faulty, chunk, results, index, executing,
                       worker, race, dispatched, stdout>>
     \/ /\ ~inputBlank /\ debugDir = "set"
        /\ debugDir' = "mkdirFailed"
        /\ faulty' = faulty
        /\ main' = "exited" /\ exitCode' = "nonzero"
        /\ UNCHANGED <<chunk, results, index, executing, worker, race,
                       dispatched, stdout>>
     \/ /\ ~inputBlank
        /\ debugDir' = IF debugDir = "set" THEN "made" ELSE debugDir
        /\ jsCommit(startWorkers(jsSched, 0), results, faulty)

\* draftChain.invoke returns; critiqueChain.invoke is called
JsDraftReturns(i) ==
  /\ prog = "js" /\ Running /\ chunk[i].phase = "draft"
  /\ chunk' = [chunk EXCEPT
        ![i].draft = DraftOf(i),
        ![i].phase = "critique",
        ![i].calls = Append(@, StageCall("critique", ChunkText(i), DraftOf(i), <<>>))]
  /\ JsFixed
  /\ UNCHANGED <<debugDir, faulty, main, results, index, executing, worker, race,
                 dispatched, stdout, exitCode>>

\* critiqueChain.invoke returns; Refine is skipped or called
JsCritiqueReturns(i) ==
  /\ prog = "js" /\ Running /\ chunk[i].phase = "critique"
  /\ JsFixed /\ UNCHANGED debugDir
  /\ LET ck == [chunk EXCEPT ![i].critique = critiqueResp]
     IN IF jsApproves(critiqueResp)
        THEN jsFinish(i, [ck EXCEPT ![i].final = ck[i].draft])
        ELSE /\ chunk' = [ck EXCEPT
                  ![i].phase = "refine",
                  ![i].calls = Append(@, StageCall("refine", ChunkText(i),
                                                   ck[i].draft, critiqueResp))]
             /\ UNCHANGED <<faulty, main, results, index, executing, worker, race,
                            dispatched, stdout, exitCode>>

\* refineChain.invoke returns
JsRefineReturns(i) ==
  /\ prog = "js" /\ Running /\ chunk[i].phase = "refine"
  /\ JsFixed /\ UNCHANGED debugDir
  /\ jsFinish(i, [chunk EXCEPT ![i].final = RefineOutput(i)])

\* an LLM call of the worker raises
JsStageFails(i) ==
  /\ prog = "js" /\ Running /\ chunk[i].phase \in {"draft", "critique", "refine"}
  /\ canFail(i)
  /\ JsFixed /\ UNCHANGED debugDir
  /\ jsReject(i, chunk, faulty \cup {i})

\* ================================================= withRetry (mjs)
Ev(ev, n, e) == [ev |-> ev, n |-> n, e |-> e]

\* how often fn has been invoked by the withRetry call of chunk record c
Invocations(c) == Cardinality({k \in 1..Len(c.trace) : c.trace[k].ev = "invoke"})

\* withRetry(fn, retries, delay) is entered and calls fn()
retryEnter(c, retries, delay) ==
  [c EXCEPT !.retries = retries,
            !.delay = delay,
            !.trace = Append(@, Ev("invoke", Invocations(c) + 1, 0))]

\* faulty variant of retryCatch: the test is retries < 0, one attempt too many
retryCatchOneMore(c) ==
  LET e == Invocations(c)
  IN IF c.retries < 0
     THEN [c EXCEPT !.phase = "thrown", !.trace = Append(@, Ev("throw", 0, e))]
     ELSE [c EXCEPT !.phase = "backoff",
                    !.trace = @ \o <<Ev("report", c.retries, e), Ev("wait", c.delay, 0)>>]

\* fn() raised (the error of this invocation is named by the invocation's
\* number): the catch block.  retries <= 0: throw error.  Otherwise
\* console.error(... retries ...) and then the setTimeout of delay.
retryCatch(c) ==
  LET e == Invocations(c)
  IN IF c.retries <= 0
     THEN [c EXCEPT !.phase = "thrown", !.trace = Append(@, Ev("throw", 0, e))]
     ELSE [c EXCEPT !.phase = "backoff",
                    !.trace = @ \o <<Ev("report", c.retries, e), Ev("wait", c.delay, 0)>>]

\* faulty variant of retryAgain: the delay is not doubled
retryAgainSameDelay(c) == retryEnter(c, c.retries - 1, c.delay)

\* the timer fired: return withRetry(fn, retries - 1, delay * 2)
retryAgain(c) == retryEnter(c, c.retries - 1, c.delay * 2)

\* fn() returned: return await fn()
retryReturn(c) ==
  [c EXCEPT !.phase = "returned", !.trace = Append(@, Ev("return", 0, Invocations(c)))]

\* ----------------------------------------- withRetry called on its own
OtherFixed == UNCHANGED <<prog, inputBlank, nChunks, limit, critiqueResp, refineEcho,
                          retryArgs, index, executing, worker, race>>

RetryCall ==
  /\ prog = "retry" /\ main = "start"
  /\ chunk' = [chunk EXCEPT ![0] =
        [retryEnter(@, retryArgs.maxRetries, retryArgs.initialDelay) EXCEPT !.phase = "fn"]]
  /\ main' = "awaitRetry"
  /\ OtherFixed
  /\ UNCHANGED <<debugDir, faulty, results, batchStart, dispatched, stdout, exitCode>>

RetryFnReturns ==
  /\ prog = "retry" /\ chunk[0].phase = "fn"
  /\ chunk' = [chunk EXCEPT ![0] = retryReturn(@)]
  /\ main' = "done"
  /\ OtherFixed
  /\ UNCHANGED <<debugDir, faulty, results, batchStart, dispatched, stdout, exitCode>>

RetryFnFails ==
  /\ prog = "retry" /\ chunk[0].phase = "fn"
  /\ chunk' = [chunk EXCEPT ![0] = retryCatch(@)]
  /\ main' = IF chunk'[0].phase = "thrown" THEN "done" ELSE main
  /\ OtherFixed
  /\ UNCHANGED <<debugDir, faulty, results, batchStart, dispatched, stdout, exitCode>>

RetryBackoffElapses ==
  /\ prog = "retry" /\ chunk[0].phase = "backoff"
  /\ chunk' = [chunk EXCEPT ![0] = [retryAgain(@) EXCEPT !.phase = "fn"]]
  /\ OtherFixed
  /\ UNCHANGED <<debugDir, faulty, main, results, batchStart, dispatched, stdout, exitCode>>

\* =============================================== translate_to_ja.mjs
\* chain.invoke({original_text, chunk_id}): the first step of the chain calls
\* the Draft prompt; nothing of an earlier attempt is carried over
chainInvoke(c, i) ==
  [c EXCEPT !.phase = "draft",
            !.draft = NoText,
            !.critique = <<>>,
            !.final = NoText,
            !.calls = <<StageCall("draft", ChunkText(i), NoText, <<>>)>>]

\* translateChunk(text, chunkIndex, totalChunks)
translateChunk(c, i) == chainInvoke(retryEnter(c, MAX_RETRIES, DEFAULT_DELAY), i)

\* batch.map(...): the chunks b .. b + CONCURRENCY_LIMIT - 1 are started in order
BatchOf(b) == {i \in Chunks : b <= i /\ i < b + MJS_CONCURRENCY_LIMIT}

\* faulty variant of startBatch: the slice is one chunk too long
RECURSIVE startBatchOneMore(_, _, _)
startBatchOneMore(s, i, b) ==
  IF i < nChunks /\ i <= b + MJS_CONCURRENCY_LIMIT
  THEN startBatchOneMore([s EXCEPT !.chunk[i] = translateChunk(@, i),
                                   !.dispatched = Append(@, i)], i + 1, b)
  ELSE s

RECURSIVE startBatch(_, _, _)
startBatch(s, i, b) ==
  IF i < nChunks /\ i < b + MJS_CONCURRENCY_LIMIT
  THEN startBatch([s EXCEPT !.chunk[i] = translateChunk(@, i),
                            !.dispatched = Append(@, i)], i + 1, b)
  ELSE s

\* results.map((r) => r.refine)
refineOf(res) == [i \in DOMAIN res |-> res[i].refine]

\* The then/catch chain of a chunk has finished as out: "settled" (result
\* stored, debug file written), "exhausted" (withRetry threw, the catch stored
\* the placeholder) or "writeFailed" (the debug write failed, the catch stored
\* the placeholder).  The withRetry call is over: its frame is gone.
finishChunk(c, out) == [c EXCEPT !.phase = out, !.retries = 0, !.delay = 0, !.trace = <<>>]

\* faulty variant of Finished: a chunk whose debug file write is still in
\* flight counts as finished
FinishedOrWriting == {"settled", "exhausted", "writeFailed", "writing"}

Finished == {"settled", "exhausted", "writeFailed"}

\* After a chunk of the batch has settled: Promise.all(batch) resolves once all
\* of the batch have; then the next batch starts, or, after the last batch, the
\* finals are joined and printed.
mjsCommit(ck, res) ==
  LET b == batchStart
  IN IF \E i \in BatchOf(b) : ck[i].phase \notin Finished
     THEN /\ chunk' = ck /\ results' = res
          /\ UNCHANGED <<main, batchStart, dispatched, stdout, exitCode>>
     ELSE IF b + MJS_CONCURRENCY_LIMIT < nChunks
     THEN LET s == startBatch([chunk |-> ck, dispatched |-> dispatched],
                              b + MJS_CONCURRENCY_LIMIT, b + MJS_CONCURRENCY_LIMIT)
          IN /\ chunk' = s.chunk /\ dispatched' = s.dispatched
             /\ results' = res
             /\ batchStart' = b + MJS_CONCURRENCY_LIMIT
             /\ UNCHANGED <<main, stdout, exitCode>>
     ELSE /\ chunk' = ck /\ results' = res
          /\ batchStart' = b + MJS_CONCURRENCY_LIMIT
          /\ stdout' = Append(stdout, join(refineOf(res), nChunks))
          /\ main' = "done"
          /\ exitCode' = "zero"
          /\ UNCHANGED dispatched

\* App.run up to the first await Promise.all: the debug directory (a failure is
\* only warned about), the empty-input exit, the split, results filled with
\* null, and the first batch
MjsRun ==
  /\ prog = "mjs" /\ main = "start" /\ Running
  /\ OtherFixed
  /\ debugDir' \in {"made", "mkdirFailed"}
  /\ faulty' = faulty
  /\ IF inputBlank
     THEN /\ main' = "exited" /\ exitCode' = "nonzero"
          /\ UNCHANGED <<chunk, results, batchStart, dispatched, stdout>>
     ELSE LET s == startBatch([chunk |-> chunk, dispatched |-> dispatched], 0, 0)
          IN /\ chunk' = s.chunk /\ dispatched' = s.dispatched
             /\ results' = [i \in Chunks |-> NullSlot]
             /\ main' = "awaitBatch"
             /\ UNCHANGED <<batchStart, stdout, exitCode>>

\* first step of the chain returns; the second calls the Critique prompt
MjsDraftReturns(i) ==
  /\ prog = "mjs" /\ Running /\ chunk[i].phase = "draft"
  /\ chunk' = [chunk EXCEPT
        ![i].draft = DraftOf(i),
        ![i].phase = "critique",
        ![i].calls = Append(@, StageCall("critique", ChunkText(i), DraftOf(i), <<>>))]
  /\ OtherFixed
  /\ UNCHANGED <<debugDir, faulty, main, results, batchStart, dispatched, stdout, exitCode>>

\* second step returns; the third calls the Refine prompt, with the critique
\* replaced by "No changes needed." when the critique approves
MjsCritiqueReturns(i) ==
  /\ prog = "mjs" /\ Running /\ chunk[i].phase = "critique"
  /\ chunk' = [chunk EXCEPT
        ![i].critique = critiqueResp,
        ![i].phase = "refine",
        ![i].calls = Append(@, StageCall("refine", ChunkText(i), chunk[i].draft,
                        IF mjsApproves(critiqueResp) THEN STR_No_changes_needed
                        ELSE critiqueResp))]
  /\ OtherFixed
  /\ UNCHANGED <<debugDir, faulty, main, results, batchStart, dispatched, stdout, exitCode>>

\* results[globalIndex] = res
mjsStore(res, i, v) == [res EXCEPT ![i] = v]

\* third step returns {draft, critique, refine}; withRetry and translateChunk
\* return it; then: results[globalIndex] = res and the debug file write starts
MjsRefineReturns(i) ==
  /\ prog = "mjs" /\ Running /\ chunk[i].phase = "refine"
  /\ LET c == [retryReturn(chunk[i]) EXCEPT !.final = RefineOutput(i), !.phase = "writing"]
     IN /\ chunk' = [chunk EXCEPT ![i] = c]
        /\ results' = mjsStore(results, i,
              [draft |-> c.draft, critique |-> c.critique, refine |-> c.final])
  /\ OtherFixed
  /\ UNCHANGED <<debugDir, faulty, main, batchStart, dispatched, stdout, exitCode>>

\* fs.writeFile of chunk_NNN_refine.txt resolves
MjsWriteDone(i) ==
  /\ prog = "mjs" /\ Running /\ chunk[i].phase = "writing"
  /\ mjsCommit([chunk EXCEPT ![i] = finishChunk(@, "settled")], results)
  /\ OtherFixed
  /\ UNCHANGED <<debugDir, faulty>>

\* faulty variant of catchChunk: the placeholder text is left empty
catchChunkBlank(res, i) == [res EXCEPT ![i] = [refine |-> EmptySlot]]

\* .catch((err) => { results[globalIndex] = { refine: "[Error]" } })
catchChunk(res, i) == [res EXCEPT ![i] = [refine |-> ErrorPlaceholder]]

\* fs.writeFile rejects: the then-callback rejects and the catch runs
MjsWriteFails(i) ==
  /\ prog = "mjs" /\ Running /\ chunk[i].phase = "writing"
  /\ canFail(i)
  /\ faulty' = faulty \cup {i}
  /\ mjsCommit([chunk EXCEPT ![i] = finishChunk(@, "writeFailed")], catchChunk(results, i))
  /\ OtherFixed
  /\ UNCHANGED debugDir

\* an LLM call of the chain raises: chain.invoke rejects into withRetry's catch
MjsStageFails(i) ==
  /\ prog = "mjs" /\ Running /\ chunk[i].phase \in {"draft", "critique", "refine"}
  /\ canFail(i)
  /\ faulty' = faulty \cup {i}
  /\ LET c == retryCatch(chunk[i])
     IN IF c.phase = "thrown"
        THEN mjsCommit([chunk EXCEPT ![i] = finishChunk(c, "exhausted")],
                       catchChunk(results, i))
        ELSE /\ chunk' = [chunk EXCEPT ![i] = c]
             /\ UNCHANGED <<main, results, batchStart, dispatched, stdout, exitCode>>
  /\ OtherFixed
  /\ UNCHANGED debugDir

\* the backoff timer of chunk i fires
MjsBackoffElapses(i) ==
  /\ prog = "mjs" /\ Running /\ chunk[i].phase = "backoff"
  /\ chunk' = [chunk EXCEPT ![i] = chainInvoke(retryAgain(@), i)]
  /\ OtherFixed
  /\ UNCHANGED <<debugDir, faulty, main, results, batchStart, dispatched, stdout, exitCode>>

\* ============================================== unnamed/part_000
\* completion.choices[0].message.content.trim()
TranslatedText == [k |-> "translated", i |-> 0]

\* The main function up to its first await of the API: the empty-input exit,
\* then inside try the debug directory and the files 01 and 02 (a failure of
\* mkdirSync or writeFileSync is caught: Translation Error, exit 1), then
\* openai.chat.completions.create
SimpleMain ==
  /\ prog = "simple" /\ main = "start" /\ Running
  /\ OtherFixed
  /\ UNCHANGED <<faulty, results, batchStart, dispatched, stdout>>
  /\ \/ /\ inputBlank
        /\ main' = "exited" /\ exitCode' = "nonzero"
        /\ UNCHANGED <<debugDir, chunk>>
     \/ /\ ~inputBlank /\ debugDir = "set"
        /\ debugDir' \in {"mkdirFailed", "made"}
        /\ main' = "exited" /\ exitCode' = "nonzero"
        /\ UNCHANGED chunk
     \/ /\ ~inputBlank
        /\ debugDir' = IF debugDir = "set" THEN "made" ELSE debugDir
        /\ chunk' = [chunk EXCEPT
              ![0].phase = "translate",
              ![0].calls = <<StageCall("translate", ChunkText(0), NoText, <<>>)>>]
        /\ main' = "awaitCompletion"
        /\ UNCHANGED exitCode

\* the completion arrives: the files 03 and 04 (a failed write is caught:
\* exit 1 with nothing printed), then console.log(translatedText)
SimpleCompletionReturns ==
  /\ prog = "simple" /\ Running /\ main = "awaitCompletion"
  /\ chunk[0].phase = "translate"
  /\ OtherFixed
  /\ UNCHANGED <<debugDir, faulty, results, batchStart, dispatched>>
  /\ chunk' = [chunk EXCEPT ![0].phase = "fulfilled", ![0].final = TranslatedText]
  /\ \/ /\ stdout' = Append(stdout, <<TranslatedText>>)
        /\ main' = "done" /\ exitCode' = "zero"
     \/ /\ debugDir = "made"
        /\ main' = "exited" /\ exitCode' = "nonzero"
        /\ UNCHANGED stdout

\* the API call raises: Translation Error, exit 1
SimpleCompletionFails ==
  /\ prog = "simple" /\ Running /\ main = "awaitCompletion"
  /\ chunk[0].phase = "translate"
  /\ OtherFixed
  /\ UNCHANGED <<debugDir, faulty, results, batchStart, dispatched, stdout>>
  /\ chunk' = [chunk EXCEPT ![0].phase = "rejected"]
  /\ main' = "exited" /\ exitCode' = "nonzero"

\* ------------------------------------------------------------- Init
\* runWithConcurrency is checked for every limit from 1 to the configured one.
InitJs ==
  /\ prog = "js"
  /\ inputBlank \in BOOLEAN
  /\ nChunks \in (IF inputBlank THEN {0} ELSE 1..MaxChunks)
  /\ limit \in (IF inputBlank THEN {JS_CONCURRENCY_LIMIT} ELSE 1..JS_CONCURRENCY_LIMIT)
  /\ \E a \in LlmAnswers(nChunks) :
        /\ critiqueResp = a.critique
        /\ refineEcho = (a.echo /\ ~jsApproves(a.critique))
  /\ debugDir \in {"unset", "set"}
  /\ retryArgs = [maxRetries |-> 0, initialDelay |-> 0]
  /\ results = [i \in Chunks |-> EmptySlot]
  /\ worker = [w \in 0..(limit - 1) |-> "unused"]
  /\ race = [w \in 0..(limit - 1) |-> {}]

\* process.argv[2] || "outputs/work_translate": the debug directory is always set
InitMjs ==
  /\ prog = "mjs"
  /\ inputBlank \in BOOLEAN
  /\ nChunks \in (IF inputBlank THEN {0} ELSE 1..MaxChunks)
  /\ limit = MJS_CONCURRENCY_LIMIT
  /\ \E a \in LlmAnswers(nChunks) :
        /\ critiqueResp = a.critique
        /\ refineEcho = a.echo
  /\ debugDir = "set"
  /\ retryArgs = [maxRetries |-> MAX_RETRIES, initialDelay |-> DEFAULT_DELAY]
  /\ results = <<>>
  /\ worker = <<>>
  /\ race = <<>>

InitialDelays == {1, DEFAULT_DELAY}

InitRetry ==
  /\ prog = "retry"
  /\ inputBlank = FALSE
  /\ nChunks = 1
  /\ limit = 1
  /\ critiqueResp = STR_No_issues
  /\ refineEcho = FALSE
  /\ debugDir = "unset"
  /\ retryArgs \in [maxRetries : 0..MaxRetriesArg, initialDelay : InitialDelays]
  /\ results = <<>>
  /\ worker = <<>>
  /\ race = <<>>

\* part_000: debugDir is null unless --debug-dir / -d is given; the whole text
\* is one request
InitSimple ==
  /\ prog = "simple"
  /\ inputBlank \in BOOLEAN
  /\ nChunks = (IF inputBlank THEN 0 ELSE 1)
  /\ limit = 1
  /\ critiqueResp = <<>>
  /\ refineEcho = FALSE
  /\ debugDir \in {"unset", "set"}
  /\ retryArgs = [maxRetries |-> 0, initialDelay |-> 0]
  /\ results = <<>>
  /\ worker = <<>>
  /\ race = <<>>

Init ==
  /\ (InitJs \/ InitMjs \/ InitSimple \/ InitRetry)
  /\ faulty = {}
  /\ main = "start"
  /\ chunk = [i \in Chunks |-> IdleChunk]
  /\ index = 0
  /\ executing = <<>>
  /\ batchStart = 0
  /\ dispatched = <<>>
  /\ stdout = <<>>
  /\ exitCode = "running"

Next ==
  \/ JsAction
  \/ \E i \in Chunks : JsDraftReturns(i)
  \/ \E i \in Chunks : JsCritiqueReturns(i)
  \/ \E i \in Chunks : JsRefineReturns(i)
  \/ \E i \in Chunks : JsStageFails(i)
  \/ MjsRun
  \/ \E i \in Chunks : MjsDraftReturns(i)
  \/ \E i \in Chunks : MjsCritiqueReturns(i)
  \/ \E i \in Chunks : MjsRefineReturns(i)
  \/ \E i \in Chunks : MjsWriteDone(i)
  \/ \E i \in Chunks : MjsWriteFails(i)
  \/ \E i \in Chunks : MjsStageFails(i)
  \/ \E i \in Chunks : MjsBackoffElapses(i)
  \/ SimpleMain
  \/ SimpleCompletionReturns
  \/ SimpleCompletionFails
  \/ RetryCall
  \/ RetryFnReturns
  \/ RetryFnFails
  \/ RetryBackoffElapses

Spec == Init /\ [][Next]_vars

\* The event loop runs a callback whenever one is ready: a pending LLM call
\* returns or raises, a pending timer fires, a pending write settles.
LiveSpec == Init /\ [][Next]_vars /\ WF_vars(Next)


\* ============================================================ claims
Printed == stdout # <<>>

AllSucceeded == \A i \in Chunks : chunk[i].phase \in {"fulfilled", "settled"}

\* the finals of the chunks, as the chunk workers produced them
finals == [i \in Chunks |-> chunk[i].final]

\* the approval marker as the specification words it: "no issues" in any
\* letter case, or the Japanese phrase, anywhere in the critique
HasApprovalMarker(t) ==
  \/ \E k \in 1..Len(t) :
        /\ k + Len(STR_no_issues) - 1 <= Len(t)
        /\ \A d \in 1..Len(STR_no_issues) : lowerChar(t[k + d - 1]) = STR_no_issues[d]
  \/ \E k \in 1..Len(t) :
        /\ k + Len(STR_mondai_nashi) - 1 <= Len(t)
        /\ \A d \in 1..Len(STR_mondai_nashi) : t[k + d - 1] = STR_mondai_nashi[d]

\* "No issues" exactly as written, or the Japanese phrase, anywhere in the critique
HasExactMarker(t) ==
  \/ \E k \in 1..Len(t) :
        /\ k + Len(STR_No_issues) - 1 <= Len(t)
        /\ \A d \in 1..Len(STR_No_issues) : t[k + d - 1] = STR_No_issues[d]
  \/ \E k \in 1..Len(t) :
        /\ k + Len(STR_mondai_nashi) - 1 <= Len(t)
        /\ \A d \in 1..Len(STR_mondai_nashi) : t[k + d - 1] = STR_mondai_nashi[d]

RefineCalls(c) == SelectSeq(c.calls, LAMBDA x : x.stage = "refine")

\* C1: whatever the order in which the chunk workers complete, a filled slot i
\* of the results holds the final of chunk i; and when all workers succeeded the
\* results have one entry per chunk and the printed output is the finals joined
\* in chunk order.
C1_ResultsInChunkOrder ==
  /\ prog = "js" =>
        \A i \in Chunks : results[i] # EmptySlot =>
            results[i] = chunk[i].final /\ results[i] \in {DraftOf(i), RefinedOf(i)}
  /\ prog = "mjs" =>
        \A i \in DOMAIN results : "draft" \in DOMAIN results[i] =>
            /\ results[i].refine = chunk[i].final
            /\ results[i].refine \in {DraftOf(i), RefinedOf(i)}
            /\ results[i].draft = DraftOf(i)
  /\ (prog \in {"js", "mjs"} /\ Printed /\ AllSucceeded) =>
        /\ DOMAIN results = Chunks
        /\ \A i \in Chunks : finals[i] \in {DraftOf(i), RefinedOf(i)}
        /\ stdout[1] = join(finals, nChunks)

\* four chunks under limit 2 (the later chunks wait for earlier ones), all done
C1_Witness ==
  /\ prog = "js" /\ nChunks = 4 /\ limit = 2
  /\ main = "done" /\ AllSucceeded
  /\ stdout = << <<RefinedOf(0), Separator, RefinedOf(1), Separator,
                   RefinedOf(2), Separator, RefinedOf(3)>> >>

jsInFlight == {i \in Chunks : chunk[i].phase \in {"draft", "critique", "refine"}}

\* C2: in runWithConcurrency at most limit invocations of asyncFn are started
\* and not yet settled.
C2_JsInFlightAtMostLimit ==
  prog = "js" => Cardinality(jsInFlight) <= limit

\* translateChunk calls started and not settled (retries and backoff included)
mjsInFlight == {i \in Chunks : chunk[i].phase \in {"draft", "critique", "refine", "backoff"}}

\* C3: in App.run at most CONFIG.CONCURRENCY_LIMIT translateChunk calls are in
\* flight at any instant.
C3_MjsInFlightAtMostLimit ==
  prog = "mjs" => Cardinality(mjsInFlight) <= MJS_CONCURRENCY_LIMIT

\* a full batch in flight, one of its chunks in a backoff wait, a chunk waiting
C3_Witness ==
  /\ prog = "mjs" /\ nChunks > MJS_CONCURRENCY_LIMIT
  /\ Cardinality(mjsInFlight) = MJS_CONCURRENCY_LIMIT
  /\ \E i \in Chunks : chunk[i].phase = "backoff"
  /\ \E i \in Chunks : chunk[i].phase = "idle"

\* position of chunk i in the joined output
At(i) == 2 * i + 1

\* C4: in App.run a chunk whose retries are exhausted gets the placeholder
\* "[Error]" in its own slot; the run neither exits non-zero nor stops: at the
\* end every chunk has been processed, every chunk that succeeded has its final
\* at its own position of the output and the exhausted one the placeholder.
C4_MjsFailureIsolated ==
  prog = "mjs" =>
    /\ \A i \in Chunks : chunk[i].phase = "exhausted" =>
          /\ results[i] = [refine |-> ErrorPlaceholder]
          /\ exitCode # "nonzero"
    /\ main = "done" =>
          /\ exitCode = "zero"
          /\ \A i \in Chunks : chunk[i].phase \in Finished
          /\ Len(stdout) = 1 /\ Len(stdout[1]) = 2 * nChunks - 1
          /\ \A i \in Chunks :
                /\ chunk[i].phase = "exhausted" => stdout[1][At(i)] = ErrorPlaceholder
                /\ chunk[i].phase = "settled" =>
                      /\ stdout[1][At(i)] = chunk[i].final
                      /\ chunk[i].final \in {DraftOf(i), RefinedOf(i)}

\* three chunks, the second always failing
C4_Witness ==
  /\ prog = "mjs" /\ nChunks = 3 /\ main = "done" /\ exitCode = "zero"
  /\ chunk[0].phase = "settled" /\ chunk[1].phase = "exhausted" /\ chunk[2].phase = "settled"
  /\ stdout = << <<chunk[0].final, Separator, ErrorPlaceholder, Separator, chunk[2].final>> >>
  /\ chunk[0].final = RefinedOf(0) /\ chunk[2].final = RefinedOf(2)

\* C5: in translate_to_ja.js a failed chunk worker leaves an error marker in
\* its slot and does not end the run.
C5_JsFailureIsolated ==
  prog = "js" =>
    \A i \in Chunks : chunk[i].phase = "rejected" =>
        /\ results[i] = ErrorPlaceholder
        /\ exitCode # "nonzero"

RECURSIVE Pow2(_)
Pow2(n) == IF n = 0 THEN 1 ELSE 2 * Pow2(n - 1)

EventsOf(c, ev) == SelectSeq(c.trace, LAMBDA x : x.ev = ev)

\* number of invocations among the first k events
InvokedBy(c, k) == Cardinality({m \in 1..k : c.trace[m].ev = "invoke"})

\* C6: withRetry whose fn fails k <= maxRetries times and then succeeds returns
\* the result of invocation k + 1 after exactly k + 1 invocations; the j-th wait
\* lasts initialDelay * 2^(j-1); every failure is reported, and reported right
\* before its wait starts.
C6_RetryThenSuccess ==
  prog \in {"retry", "mjs"} =>
    \A i \in Chunks :
      LET c == chunk[i]
          w == EventsOf(c, "wait")
          r == EventsOf(c, "report")
          n == Len(c.trace)
      IN /\ \A j \in 1..Len(w) : w[j].n = retryArgs.initialDelay * Pow2(j - 1)
         /\ \A j \in 1..(Len(w) - 1) : w[j].n < w[j + 1].n /\ w[j + 1].n = 2 * w[j].n
         /\ \A k \in 1..n : c.trace[k].ev = "wait" =>
               /\ k > 2
               /\ c.trace[k - 1].ev = "report"
               /\ c.trace[k - 1].e = InvokedBy(c, k)
               /\ c.trace[k - 2].ev = "invoke"
         /\ Len(r) = Len(w)
         /\ (n > 0 /\ c.trace[n].ev = "return") =>
               /\ Len(r) <= retryArgs.maxRetries
               /\ Invocations(c) = Len(r) + 1
               /\ c.trace[n].e = Len(r) + 1
               /\ c.phase \in {"returned", "writing"}

\* fn fails twice, then succeeds, with maxRetries = 3
C6_Witness ==
  /\ prog = "retry"
  /\ retryArgs = [maxRetries |-> 3, initialDelay |-> DEFAULT_DELAY]
  /\ chunk[0].phase = "returned"
  /\ Invocations(chunk[0]) = 3
  /\ [j \in 1..2 |-> EventsOf(chunk[0], "wait")[j].n] = <<1000, 2000>>

\* C7: withRetry whose fn always fails invokes it exactly maxRetries + 1 times,
\* then throws the error of the last invocation, and nothing follows the throw.
C7_RetryExhausted ==
  prog \in {"retry", "mjs"} =>
    \A i \in Chunks :
      LET c == chunk[i]
          n == Len(c.trace)
      IN /\ Invocations(c) <= retryArgs.maxRetries + 1
         /\ \A k \in 1..n : c.trace[k].ev = "throw" =>
               /\ k = n
               /\ Invocations(c) = retryArgs.maxRetries + 1
               /\ Len(EventsOf(c, "report")) = retryArgs.maxRetries
               /\ c.trace[k].e = retryArgs.maxRetries + 1
               /\ c.trace[k - 1].ev = "invoke"
         /\ c.phase = "thrown" <=> (n > 0 /\ c.trace[n].ev = "throw")
         /\ (Invocations(c) = retryArgs.maxRetries + 1 /\ n > 0 /\ c.trace[n].ev = "invoke")
               => c.retries = 0

\* maxRetries = 2: three invocations, then the throw
C7_Witness ==
  /\ prog = "retry"
  /\ retryArgs.maxRetries = 2
  /\ chunk[0].phase = "thrown"
  /\ Invocations(chunk[0]) = 3

\* C8: in the worker of translate_to_ja.js a critique holding the approval
\* marker means Refine is not invoked and the final is the draft; a one-chunk
\* run with such a critique prints exactly the draft.
C8_JsApprovedSkipsRefine ==
  prog = "js" =>
    /\ \A i \in Chunks :
         LET c == chunk[i]
         IN (c.critique # <<>> /\ HasApprovalMarker(c.critique)) =>
              /\ RefineCalls(c) = <<>>
              /\ c.phase # "refine"
              /\ c.draft = DraftOf(i)
              /\ c.final = c.draft
              /\ c.phase = "fulfilled" => results[i] = c.draft
    /\ (nChunks = 1 /\ Printed /\ HasApprovalMarker(critiqueResp)) =>
         stdout = << <<DraftOf(0)>> >>

\* one chunk, the critique "NO ISSUES found": the draft is printed
C8_Witness ==
  /\ prog = "js" /\ nChunks = 1 /\ main = "done"
  /\ chunk[0].critique = STR_NO_ISSUES_found
  /\ chunk[0].calls = <<StageCall("draft", ChunkText(0), NoText, <<>>),
                        StageCall("critique", ChunkText(0), DraftOf(0), <<>>)>>
  /\ stdout = << <<DraftOf(0)>> >>

\* C9: in translate_to_ja.mjs a critique that is or contains "No issues" or the
\* Japanese phrase leaves the chunk's final (field refine) equal to its draft.
C9_MjsApprovedFinalIsDraft ==
  prog = "mjs" =>
    \A i \in Chunks :
      LET c == chunk[i]
      IN (c.final # NoText /\ HasExactMarker(c.critique)) =>
            /\ c.final = c.draft
            /\ "draft" \in DOMAIN results[i] => results[i].refine = results[i].draft

\* C10: in both pipelines a critique without approval marker means Refine is
\* invoked exactly once in the attempt, with the original text, the draft and
\* the critique itself, and the final is what Refine returned.
C10_DisapprovedIsRefined ==
  prog \in {"js", "mjs"} =>
    \A i \in Chunks :
      LET c == chunk[i]
      IN (c.critique # <<>> /\ ~HasApprovalMarker(c.critique)) =>
            /\ RefineCalls(c) = <<StageCall("refine", ChunkText(i), DraftOf(i), c.critique)>>
            /\ c.draft = DraftOf(i)
            /\ c.final # NoText => c.final = RefineOutput(i)
            /\ c.phase \in {"fulfilled", "writing", "settled", "writeFailed"} =>
                  c.final = RefineOutput(i)
            /\ c.phase = "fulfilled" => results[i] = RefineOutput(i)
            /\ c.phase \in {"writing", "settled"} =>
                  results[i] = [draft |-> DraftOf(i), critique |-> c.critique,
                                refine |-> RefineOutput(i)]

\* a chunk of the mjs chain whose critique found something and whose final is
\* the rewritten text, not the draft
C10_Witness ==
  /\ prog = "mjs" /\ critiqueResp = STR_No_issue_but_API
  /\ \E i \in Chunks :
        /\ chunk[i].phase = "settled"
        /\ chunk[i].final = RefinedOf(i)
        /\ results[i].refine = RefinedOf(i)
        /\ results[i].refine # results[i].draft

\* chunks whose worker was started and whose promise has not settled
Unsettled ==
  {i \in Chunks : chunk[i].phase \in {"draft", "critique", "refine", "backoff", "writing"}}

\* C11: in translate_to_ja.js and translate_to_ja.mjs the assembled text is
\* printed at most once, and only when every chunk has settled and every slot of
\* the results holds a value (none empty, none null); the scheduler (the
\* return of runWithConcurrency, the end of the batch loop) is not left while a
\* chunk is in flight.
C11_PrintedOnceAfterAllSettled ==
  prog \in {"js", "mjs"} =>
    /\ Len(stdout) <= 1
    /\ Printed =>
          /\ \A i \in Chunks :
                chunk[i].phase \in {"fulfilled", "settled", "exhausted", "writeFailed"}
          /\ DOMAIN results = Chunks
          /\ \A i \in Chunks : results[i] \notin {EmptySlot, NullSlot}
          /\ Len(stdout[1]) = 2 * nChunks - 1
          /\ \A i \in Chunks : stdout[1][At(i)] \notin {EmptySlot, NullSlot, NoText}
    /\ (main = "done" \/ (prog = "mjs" /\ main # "start" /\ batchStart >= nChunks)) =>
          /\ Unsettled = {}
          /\ \A i \in Chunks : chunk[i].phase # "idle"

\* four chunks in two batches, the last one exhausting its retries: printed once
C11_Witness ==
  /\ prog = "mjs" /\ nChunks = 4 /\ Len(stdout) = 1 /\ main = "done"
  /\ \A i \in 0..2 : chunk[i].phase = "settled"
  /\ chunk[3].phase = "exhausted"
  /\ stdout[1][At(3)] = ErrorPlaceholder

\* C12: in translate_to_ja.mjs a failure of the debug directory or of a chunk's
\* debug file neither aborts the run nor changes the translation: a chunk whose
\* pipeline returned keeps its refine text in its slot and in the output.
C12_MjsDebugFailureHarmless ==
  prog = "mjs" =>
    /\ (debugDir = "mkdirFailed" /\ ~inputBlank) => exitCode # "nonzero"
    /\ \A i \in Chunks : chunk[i].phase \in {"settled", "writeFailed"} =>
          /\ exitCode # "nonzero"
          /\ chunk[i].final \in {DraftOf(i), RefinedOf(i)}
          /\ results[i].refine = chunk[i].final
          /\ Printed => stdout[1][At(i)] = chunk[i].final

\* C13: with an empty input each of the three scripts exits non-zero and has
\* done nothing else: no debug directory made, no chunk dispatched, no LLM
\* call, nothing printed.
C13_BlankInputNoPartialWork ==
  (prog \in {"js", "mjs", "simple"} /\ inputBlank /\ main # "start") =>
    /\ main = "exited" /\ exitCode = "nonzero"
    /\ debugDir # "made"
    /\ dispatched = <<>>
    /\ \A i \in Chunks : chunk[i].calls = <<>>
    /\ stdout = <<>>

\* a step in which a chunk settles while another waits starts a waiting chunk
SettleDispatches ==
  prog = "mjs" =>
    \A i \in Chunks :
      (/\ chunk[i].phase \notin {"idle", "settled", "exhausted", "writeFailed"}
       /\ chunk'[i].phase \in {"settled", "exhausted", "writeFailed"}
       /\ \E j \in Chunks : chunk[j].phase = "idle")
      => /\ Len(dispatched') = Len(dispatched) + 1
         /\ chunk[dispatched'[Len(dispatched')]].phase = "idle"
         /\ chunk'[dispatched'[Len(dispatched')]].phase # "idle"

\* C15: in App.run, a step in which a chunk settles while a chunk is still
\* waiting to be started also starts the lowest waiting chunk.
C15_MjsDispatchOnSettle == [][SettleDispatches]_vars

\* C16: both pipelines take the approval branch exactly when the critique holds
\* "no issues" in any letter case or the Japanese phrase: the mjs chain then
\* hands "No changes needed." to Refine, the js worker then skips Refine.
C16_SameApprovalRule ==
  /\ prog = "mjs" =>
        \A i \in Chunks : \A k \in 1..Len(chunk[i].calls) :
            chunk[i].calls[k].stage = "refine" =>
               (chunk[i].calls[k].critique = STR_No_changes_needed
                   <=> HasApprovalMarker(chunk[i].critique))
  /\ prog = "js" =>
        \A i \in Chunks : chunk[i].critique # <<>> =>
            (RefineCalls(chunk[i]) = <<>> <=> HasApprovalMarker(chunk[i].critique))

Filled(v) == v \notin {EmptySlot, NullSlot}

\* a slot changes only in a step of its own chunk, and not once it is filled
SlotKept ==
  prog \in {"js", "mjs"} =>
    \A i \in DOMAIN results :
      /\ Filled(results[i]) => results'[i] = results[i]
      /\ results'[i] # results[i] => chunk'[i].phase # chunk[i].phase

\* C17: in both schedulers a slot of the results changes only in a step of its
\* own chunk's worker, and a slot that has been filled never changes again.
C17_SlotWrittenOnce == [][SlotKept]_vars

\* C18: in both schedulers the chunks are started in ascending index order,
\* each once: the k-th worker started is that of chunk k - 1, the started
\* chunks are exactly the first Len(dispatched) ones, and a run that prints has
\* started all of them.
C18_DispatchAscendingOnce ==
  prog \in {"js", "mjs"} =>
    /\ Len(dispatched) <= nChunks
    /\ \A k \in 1..Len(dispatched) : dispatched[k] = k - 1
    /\ \A i \in Chunks : chunk[i].phase # "idle" <=> i < Len(dispatched)
    /\ prog = "js" => index = Len(dispatched)
    /\ Printed => Len(dispatched) = nChunks

\* runWithConcurrency with two enqueue chains sharing index, four tasks
C18_Witness ==
  /\ prog = "js" /\ limit = 2 /\ nChunks = 4
  /\ dispatched = <<0, 1, 2, 3>>
  /\ worker[0] = "racing" /\ worker[1] = "returned"
  /\ chunk[0].phase = "fulfilled" /\ chunk[3].phase = "draft"

\* C19: within one attempt of a chunk the calls are Draft, then Critique with
\* the draft Draft returned, then Refine, each at most once and each only after
\* the one before has returned; an attempt ended by a failing stage has called
\* no stage after it.
C19_StagesInOrder ==
  prog \in {"js", "mjs"} =>
    \A i \in Chunks :
      LET c == chunk[i]
          n == Len(c.calls)
      IN /\ n <= 3
         /\ n >= 1 => c.calls[1] = StageCall("draft", ChunkText(i), NoText, <<>>)
         /\ n >= 2 => /\ c.calls[2] = StageCall("critique", ChunkText(i), DraftOf(i), <<>>)
                      /\ c.draft = DraftOf(i)
         /\ n >= 3 => /\ c.calls[3].stage = "refine"
                      /\ c.calls[3].draft = DraftOf(i)
                      /\ c.critique # <<>>
         /\ c.phase = "idle" => n = 0
         /\ c.phase = "draft" => n = 1 /\ c.draft = NoText
         /\ c.phase = "critique" => n = 2 /\ c.critique = <<>>
         /\ c.phase = "refine" => n = 3 /\ c.final = NoText
         /\ c.draft # NoText => n >= 2
         /\ c.critique # <<>> => n >= 2
         /\ c.final # NoText => c.critique # <<>>
         /\ c.phase \in {"backoff", "exhausted"} =>
               /\ n \in 1..3
               /\ n = 1 => c.draft = NoText
               /\ n = 2 => c.critique = <<>>
               /\ c.final = NoText
         /\ (c.phase = "rejected" /\ c.final = NoText) =>
               /\ n = 1 => c.draft = NoText
               /\ n = 2 => c.critique = <<>>

\* one chunk has gone through the three stages while another, whose Critique
\* call failed, waits for its next attempt
C19_Witness ==
  /\ prog = "mjs"
  /\ \E i \in Chunks : chunk[i].phase = "settled" /\ Len(chunk[i].calls) = 3
  /\ \E j \in Chunks :
        /\ chunk[j].phase = "backoff"
        /\ chunk[j].calls = <<StageCall("draft", ChunkText(j), NoText, <<>>),
                              StageCall("critique", ChunkText(j), DraftOf(j), <<>>)>>

\* what a stage has produced for a chunk stays as it is
StageResultsKept ==
  prog = "mjs" =>
    \A i \in Chunks :
      /\ chunk[i].draft # NoText => chunk'[i].draft = chunk[i].draft
      /\ chunk[i].critique # <<>> => chunk'[i].critique = chunk[i].critique

\* C20: in translate_to_ja.mjs the draft and the critique produced for a chunk
\* are kept through the retries of withRetry: no step replaces or discards them.
C20_NoStageRegenerated == [][StageResultsKept]_vars

\* the run is over as far as the schedulers go: App.run has assembled its
\* output with every slot filled and every chunk started and finished;
\* runWithConcurrency has returned with every slot filled and every enqueue
\* chain returned, or the process has exited
RunEnded ==
  /\ main \in {"done", "exited"}
  /\ (prog = "mjs" /\ ~inputBlank) =>
        /\ main = "done" /\ Printed
        /\ \A i \in Chunks :
              /\ chunk[i].phase \in Finished
              /\ Filled(results[i])
  /\ (prog = "js" /\ main = "done") =>
        /\ \A i \in Chunks : chunk[i].phase = "fulfilled" /\ Filled(results[i])
        /\ \A w \in DOMAIN worker : worker[w] \in {"returned", "unused"}
        /\ executing = <<>>
  /\ (prog = "js" /\ ~inputBlank /\ debugDir \in {"unset"}
        /\ \A i \in Chunks : chunk[i].phase # "rejected") => main = "done"

\* C21: when every pending call, timer and write eventually settles, every run
\* of translate_to_ja.mjs and translate_to_ja.js ends: App.run reaches assembly
\* with all slots filled, no chunk having been attempted more than
\* MAX_RETRIES + 1 times; runWithConcurrency returns the full results when no
\* worker fails, and otherwise the process exits.
C21_EveryRunEnds ==
  /\ [](prog = "mjs" => \A i \in Chunks : Invocations(chunk[i]) <= MAX_RETRIES + 1)
  /\ <>(prog \in {"js", "mjs"} => RunEnded)

\* four chunks in two batches, the first chunk given up after its retries
C21_Witness ==
  /\ prog = "mjs" /\ nChunks = 4 /\ main = "done" /\ RunEnded
  /\ chunk[0].phase = "exhausted"
  /\ \A i \in 1..3 : chunk[i].phase = "settled"
====
